---------------------------- MODULE Spec2Model ----------------------------
(***************************************************************************)
(* State-machine model of src/src/script.ts (Souvlaki42/wordle).           *)
(*                                                                         *)
(* The program is a set of DOM event handlers.  Its state is the guess     *)
(* grid (one data-letter / data-state pair per tile), the "flip" class of  *)
(* every tile, the classes of the keyboard keys, whether the click/keydown *)
(* listeners are attached to the document, the pending setTimeout          *)
(* callbacks, the registered {once: true} transitionend listeners, the     *)
(* transitions running on tiles, and the alerts in the alert container.    *)
(*                                                                         *)
(* Strings are tuples of one-character strings.  tile.textContent and the  *)
(* shake/dance classes are written but never read by any handler, so they  *)
(* are not part of the state.                                              *)
(*                                                                         *)
(* Time is kept as the remaining delay of each pending flip timer and      *)
(* running tile transition, in ms.  A timer fires when its delay has       *)
(* elapsed, a transition ends TransitionDuration after the class change    *)
(* that started it (the same duration for every tile), and events due at   *)
(* the same instant happen in any order.  Input events and the dismissal   *)
(* of alerts can happen at any moment.                                     *)
(*                                                                         *)
(* phase records the game state the handlers have realised: "revealing"    *)
(* from the stopInteraction() of an accepted guess, then the branch of     *)
(* checkWinLose that ran ("won", "lost", or "awaiting" for the next row).  *)
(***************************************************************************)
EXTENDS Integers, Sequences, FiniteSets, TLC

\* script.ts:4
WORD_LENGTH == 5

\* script.ts:5
FLIP_ANIMATION_DURATION == 500

\* Rows of the guess grid (the grid is markup loaded by the page).
NumRows == 2

\* Alerts of rejected submissions that may be on screen at once.
MaxAlerts == 1

NumTiles == NumRows * WORD_LENGTH

\* The tiles of the guess grid in document order.
Tiles == 0 .. (NumTiles - 1)

\* The letters a player can type in this model.
Letters == {"a", "b", "c"}

\* The lower-case letters of this model and their upper-case forms.
LowerAlphabet == <<"a", "b", "c", "d", "e", "n", "r", "t">>

UpperAlphabet == <<"A", "B", "C", "D", "E", "N", "R", "T">>

\* data-key values of the on-screen keyboard buttons: one per letter.
DataKeys == {UpperAlphabet[i] : i \in 1 .. Len(UpperAlphabet)}

\* The key buttons a player clicks in this model.
ClickKeys == {"A", "B", "C"}

\* event.key values of keydown events.
EventKeys == Letters \cup {"Enter", "Backspace", "Delete", "A", "Shift"}

\* What a click can land on: a key button, the enter button, the delete
\* button, or anything else.
ClickTargets ==
    [kind : {"key"}, key : ClickKeys]
        \cup [kind : {"enter", "delete", "other"}, key : {""}]

\* An attribute that is not set (dataset.letter / dataset.state deleted).
Absent == "absent"

\* The value of targetWords[i] for an index outside the array.
Undefined == <<"undefined">>

\* targetWords.json: one word per day since the epoch.
TargetWords ==
    << <<"a", "b", "b", "c", "a">>, <<"b", "a", "b", "a", "b">> >>

\* dictionary.json: the words accepted as guesses.
Dictionary ==
    { <<"a", "b", "b", "c", "a">>, <<"b", "a", "b", "a", "b">>,
      <<"b", "a", "c", "c", "a">>, <<"c", "c", "a", "a", "b">> }

MsPerDay == 1000 * 60 * 60 * 24

\* Date.now() - offsetFromDate.getTime(), in ms, at page load.
MsOffsets == {3600000, MsPerDay - 1, MsPerDay, 2 * MsPerDay}

\* Duration of one half of the flip (the transform transition of a tile),
\* the same for every tile: half of FLIP_ANIMATION_DURATION, which is also
\* the stagger between two tiles.
TransitionDuration == FLIP_ANIMATION_DURATION \div 2

AlertIncomplete == "Not enough letters!"
AlertUnknown == "Not in word list!"
AlertError == "Something went wrong!"
AlertWon == "You won!"
AlertLost == "You lose! Target word: "

VARIABLES
    tiles,        \* tile -> [letter, state]: dataset.letter, dataset.state
    flipClass,    \* tiles whose classList contains "flip"
    keyClasses,   \* data-key -> classes added to that key
    interactive,  \* click and keydown listeners are attached to document
    timers,       \* pending flip timers: [tile, remaining]
    listeners,    \* registered transitionend listeners of tiles
    transitions,  \* running transitions: [tile, remaining]
    alerts,       \* children of the alert container, most recent first
    page,         \* the collaborators found in the page at load
    msOffset,     \* Date.now() - epoch at load
    targetWord,   \* targetWords[Math.floor(dayOffset)]
    phase         \* the game state the handlers have realised so far

vars ==
    << tiles, flipClass, keyClasses, interactive, timers, listeners,
       transitions, alerts, page, msOffset, targetWord, phase >>

-----------------------------------------------------------------------------
(* Helpers *)

Min(S) == CHOOSE x \in S : \A y \in S : x <= y

RECURSIVE SortedSeq(_)
SortedSeq(S) ==
    IF S = {} THEN <<>>
    ELSE LET m == Min(S) IN <<m>> \o SortedSeq(S \ {m})

\* String.prototype.toLowerCase
ToLowerCase(k) ==
    IF \E i \in 1 .. Len(UpperAlphabet) : UpperAlphabet[i] = k
    THEN LowerAlphabet[CHOOSE i \in 1 .. Len(UpperAlphabet) :
                          UpperAlphabet[i] = k]
    ELSE k

\* event.key.match(/^[a-z]$/)
MatchesLowerLetter(k) == k \in Letters

\* targetWord.includes(letter)
Includes(word, letter) == \E j \in 1 .. Len(word) : word[j] = letter

\* targetWords[Math.floor(dayOffset)]
ResolveTargetWord(ms) ==
    LET index == ms \div MsPerDay
    IN  IF index >= 0 /\ index < Len(TargetWords)
        THEN TargetWords[index + 1]
        ELSE Undefined

\* guessGrid.querySelectorAll("[data-state='active']"), in document order
getActiveTiles == SortedSeq({t \in Tiles : tiles[t].state = "active"})

\* guessGrid.querySelectorAll(":not([data-letter])") of a grid ts
EmptyTiles(ts) == {t \in Tiles : ts[t].letter = Absent}

\* keyboard.querySelector(`[data-key="${letter}"i]`): the key or none
KeyOf(letter) == {k \in page.keys : ToLowerCase(k) = letter}

\* String.prototype.toUpperCase, letter by letter
ToUpperCase(word) ==
    [j \in 1 .. Len(word) |->
        IF \E i \in 1 .. Len(LowerAlphabet) : LowerAlphabet[i] = word[j]
        THEN UpperAlphabet[CHOOSE i \in 1 .. Len(LowerAlphabet) :
                              LowerAlphabet[i] = word[j]]
        ELSE word[j]]

NoWord == <<>>

\* showAlert(message, duration): prepend to the alert container.  A
\* duration of 0 stands for null: the alert is never dismissed.
showAlert(as, message, word, duration) ==
    << [msg |-> message, word |-> word, duration |-> duration,
        hide |-> FALSE] >> \o as

\* Whether document listens to click/keydown after startInteraction()
startInteraction == TRUE

\* Variant: stopInteraction() that leaves the listeners attached
stopInteractionKeepsListeners == interactive

\* Whether document listens to click/keydown after stopInteraction()
stopInteraction == FALSE

\* Variant: the stagger runs from the last tile to the first
FlipDelayReversed(index) ==
    ((WORD_LENGTH - 1 - index) * FLIP_ANIMATION_DURATION) \div 2

\* The delay of the flip timer of the tile at index (0-based)
FlipDelay(index) == (index * FLIP_ANIMATION_DURATION) \div 2

\* Variant: the containment test placed before the position test
VerdictIncludesFirst(target, index, letter) ==
    IF Includes(target, letter) THEN "wrong-location"
    ELSE IF target[index + 1] = letter THEN "correct"
    ELSE "wrong"

\* Variant: no containment test, a letter off its position is wrong
VerdictPositionOnly(target, index, letter) ==
    IF target[index + 1] = letter THEN "correct" ELSE "wrong"

\* The verdict the transitionend listener of flipTile assigns
Verdict(target, index, letter) ==
    IF target[index + 1] = letter THEN "correct"
    ELSE IF Includes(target, letter) THEN "wrong-location"
    ELSE "wrong"

Verdicts == {"correct", "wrong-location", "wrong"}

\* classList.add("flip") on a tile starts its transform transition
AddFlip(tile) ==
    IF tile \in flipClass
    THEN UNCHANGED << flipClass, transitions >>
    ELSE /\ flipClass' = flipClass \cup {tile}
         /\ transitions' =
                {x \in transitions : x.tile # tile}
                    \cup {[tile |-> tile, remaining |-> TransitionDuration]}

-----------------------------------------------------------------------------
(* The handlers *)

\* The page the program is written for: the three collaborators and a key
\* button for every letter
CompletePage ==
    [guessGrid |-> TRUE, alertContainer |-> TRUE, keyboard |-> TRUE,
     keys |-> DataKeys]

\* The state the top-level code leaves on a page pg: with a collaborator
\* missing, errorResponse() throws before targetWord is computed and before
\* startInteraction(), and its alert is prepended only if the alert
\* container exists (alertContainer?.prepend).
Loaded(pg) ==
    /\ page = pg
    /\ tiles = [t \in Tiles |-> [letter |-> Absent, state |-> Absent]]
    /\ flipClass = {}
    /\ keyClasses = [k \in DataKeys |-> {}]
    /\ timers = {}
    /\ listeners = {}
    /\ transitions = {}
    /\ msOffset \in MsOffsets
    /\ phase = "awaiting"
    /\ IF pg.guessGrid /\ pg.alertContainer /\ pg.keyboard
       THEN /\ alerts = <<>>
            /\ targetWord = ResolveTargetWord(msOffset)
            /\ interactive = startInteraction
       ELSE /\ alerts = IF pg.alertContainer
                        THEN showAlert(<<>>, AlertError, NoWord, 0)
                        ELSE <<>>
            /\ targetWord = Undefined
            /\ interactive = FALSE

Init == Loaded(CompletePage)

\* errorResponse(): persistent alert, stop listening, throw
errorResponse ==
    /\ alerts' = showAlert(alerts, AlertError, NoWord, 0)
    /\ interactive' = stopInteraction

\* [data-state='active'] tiles of a grid ts, in document order
ActiveTilesOf(ts) == SortedSeq({t \in Tiles : ts[t].state = "active"})

\* The grid pressKey(key) leaves when it does not end in errorResponse:
\* ts itself when the key is ignored, else ts with its first letterless
\* tile filled
pressKeyGrid(ts, key) ==
    IF key = "" THEN ts
    ELSE IF Len(ActiveTilesOf(ts)) >= WORD_LENGTH THEN ts
    ELSE IF EmptyTiles(ts) = {} THEN ts
    ELSE [ts EXCEPT ![Min(EmptyTiles(ts))] =
             [letter |-> ToLowerCase(key), state |-> "active"]]

\* Variant: clears the first active tile
deleteKeyGridFirst(ts) ==
    LET activeTiles == ActiveTilesOf(ts)
    IN  IF Len(activeTiles) = 0 THEN ts
        ELSE [ts EXCEPT ![activeTiles[1]] =
                 [letter |-> Absent, state |-> Absent]]

\* The grid deleteKey() leaves: the last active tile cleared
deleteKeyGrid(ts) ==
    LET activeTiles == ActiveTilesOf(ts)
    IN  IF Len(activeTiles) = 0 THEN ts
        ELSE [ts EXCEPT ![activeTiles[Len(activeTiles)]] =
                 [letter |-> Absent, state |-> Absent]]

\* Variant: the saturation test with > in place of >=
pressKeyOffByOne(key) ==
    LET activeTiles == getActiveTiles
        empty == EmptyTiles(tiles)
    IN  IF key = "" THEN UNCHANGED vars
        ELSE IF Len(activeTiles) > WORD_LENGTH THEN UNCHANGED vars
        ELSE IF empty = {}
        THEN /\ errorResponse
             /\ UNCHANGED << tiles, flipClass, keyClasses, timers, listeners,
                             transitions, page, msOffset, targetWord, phase >>
        ELSE /\ tiles' = [tiles EXCEPT ![Min(empty)] =
                            [letter |-> ToLowerCase(key), state |-> "active"]]
             /\ UNCHANGED << flipClass, keyClasses, interactive, timers,
                             listeners, transitions, alerts, page, msOffset,
                             targetWord, phase >>

\* Variant: no saturation test at all
pressKeyNoLimit(key) ==
    LET empty == EmptyTiles(tiles)
    IN  IF key = "" THEN UNCHANGED vars
        ELSE IF empty = {}
        THEN /\ errorResponse
             /\ UNCHANGED << tiles, flipClass, keyClasses, timers, listeners,
                             transitions, page, msOffset, targetWord, phase >>
        ELSE /\ tiles' = [tiles EXCEPT ![Min(empty)] =
                            [letter |-> ToLowerCase(key), state |-> "active"]]
             /\ UNCHANGED << flipClass, keyClasses, interactive, timers,
                             listeners, transitions, alerts, page, msOffset,
                             targetWord, phase >>

pressKey(key) ==
    LET activeTiles == getActiveTiles
        empty == EmptyTiles(tiles)
    IN  IF key = "" THEN UNCHANGED vars
        ELSE IF Len(activeTiles) >= WORD_LENGTH THEN UNCHANGED vars
        ELSE IF empty = {}
        THEN /\ errorResponse
             /\ UNCHANGED << tiles, flipClass, keyClasses, timers, listeners,
                             transitions, page, msOffset, targetWord, phase >>
        ELSE /\ tiles' = pressKeyGrid(tiles, key)
             /\ UNCHANGED << flipClass, keyClasses, interactive, timers,
                             listeners, transitions, alerts, page, msOffset,
                             targetWord, phase >>

\* Variant: clears the last tile holding a letter, active or not
deleteKeyLastLetter ==
    LET lettered == SortedSeq(Tiles \ EmptyTiles(tiles))
    IN  IF Len(lettered) = 0 THEN UNCHANGED vars
        ELSE /\ tiles' = [tiles EXCEPT ![lettered[Len(lettered)]] =
                            [letter |-> Absent, state |-> Absent]]
             /\ UNCHANGED << flipClass, keyClasses, interactive, timers,
                             listeners, transitions, alerts, page, msOffset,
                             targetWord, phase >>

deleteKey ==
    LET activeTiles == getActiveTiles
    IN  IF Len(activeTiles) = 0 THEN UNCHANGED vars
        ELSE /\ tiles' = deleteKeyGrid(tiles)
             /\ UNCHANGED << flipClass, keyClasses, interactive, timers,
                             listeners, transitions, alerts, page, msOffset,
                             targetWord, phase >>

\* The timer and the listener flipTile(tile, index, array, guess) registers
FlipTimer(tile, index) == [tile |-> tile, remaining |-> FlipDelay(index)]

RevealListener(tile, index, array, guess) ==
    [tile |-> tile, kind |-> "reveal", index |-> index,
     letter |-> guess[index + 1], array |-> array, guess |-> guess]

FinishListener(l) == [l EXCEPT !.kind = "finish"]

\* activeTiles.forEach((...params) => flipTile(...params, guess)):
\* flipTile throws through errorResponse at the first letter without a key,
\* which ends the forEach; the tiles before it are already scheduled.
Flipped(guess) ==
    LET bad == {i \in 0 .. (Len(guess) - 1) : KeyOf(guess[i + 1]) = {}}
    IN  IF bad = {} THEN 0 .. (Len(guess) - 1) ELSE 0 .. (Min(bad) - 1)

rejectGuess(message) ==
    /\ Len(alerts) < MaxAlerts
    /\ alerts' = showAlert(alerts, message, NoWord, 1000)
    /\ UNCHANGED << tiles, flipClass, keyClasses, interactive, timers,
                    listeners, transitions, page, msOffset, targetWord, phase >>

\* The accepted branch of submitGuess: stopInteraction(), then flipTile on
\* every active tile
startReveal(activeTiles, guess) ==
    /\ interactive' = stopInteraction
    /\ phase' = "revealing"
    /\ timers' = timers \cup
           {FlipTimer(activeTiles[i + 1], i) : i \in Flipped(guess)}
    /\ listeners' = listeners \cup
           {RevealListener(activeTiles[i + 1], i, activeTiles, guess) :
               i \in Flipped(guess)}
    /\ alerts' = IF Flipped(guess) = 0 .. (Len(guess) - 1)
                 THEN alerts
                 ELSE showAlert(alerts, AlertError, NoWord, 0)
    /\ UNCHANGED << tiles, flipClass, keyClasses, transitions, page, msOffset,
                    targetWord >>

\* Variant: only an empty row is reported as incomplete
submitGuessEmptyOnly ==
    LET activeTiles == getActiveTiles
        guess == [i \in 1 .. Len(activeTiles) |-> tiles[activeTiles[i]].letter]
    IN  IF Len(activeTiles) = 0
        THEN rejectGuess(AlertIncomplete)
        ELSE IF guess \notin Dictionary
        THEN rejectGuess(AlertUnknown)
        ELSE startReveal(activeTiles, guess)

\* Variant: the dictionary is not consulted
submitGuessNoDictionary ==
    LET activeTiles == getActiveTiles
        guess == [i \in 1 .. Len(activeTiles) |-> tiles[activeTiles[i]].letter]
    IN  IF Len(activeTiles) # WORD_LENGTH
        THEN rejectGuess(AlertIncomplete)
        ELSE startReveal(activeTiles, guess)

submitGuess ==
    LET activeTiles == getActiveTiles
        guess == [i \in 1 .. Len(activeTiles) |-> tiles[activeTiles[i]].letter]
    IN  IF Len(activeTiles) # WORD_LENGTH
        THEN rejectGuess(AlertIncomplete)
        ELSE IF guess \notin Dictionary
        THEN rejectGuess(AlertUnknown)
        ELSE startReveal(activeTiles, guess)

handleMouseClick(target) ==
    IF target.kind = "key" THEN pressKey(target.key)
    ELSE IF target.kind = "enter" THEN submitGuess
    ELSE IF target.kind = "delete" THEN deleteKey
    ELSE UNCHANGED vars

handleKeyPress(key) ==
    IF key = "Enter" THEN submitGuess
    ELSE IF key = "Backspace" \/ key = "Delete" THEN deleteKey
    ELSE IF MatchesLowerLetter(key) THEN pressKey(key)
    ELSE UNCHANGED vars

\* A click on the page: delivered to handleMouseClick while it is attached
Click(target) ==
    IF interactive THEN handleMouseClick(target) ELSE UNCHANGED vars

\* A keydown on the page: delivered to handleKeyPress while it is attached
KeyDown(key) ==
    IF interactive THEN handleKeyPress(key) ELSE UNCHANGED vars

\* The flip timer of a tile fires: tile.classList.add("flip")
TimerFires(tm) ==
    /\ tm \in timers
    /\ tm.remaining = 0
    /\ timers' = timers \ {tm}
    /\ AddFlip(tm.tile)
    /\ UNCHANGED << tiles, keyClasses, interactive, listeners, alerts,
                    page, msOffset, targetWord, phase >>

\* tile.classList.remove("flip") starts the transition back
RemoveFlip(tr) ==
    /\ flipClass' = flipClass \ {tr.tile}
    /\ transitions' =
           (transitions \ {tr}) \cup
               (IF tr.tile \in flipClass
                THEN {[tile |-> tr.tile, remaining |-> TransitionDuration]}
                ELSE {})

\* Variant: the second listener is attached by the first tile, not the last
RevealFinishFirst(l, tr) ==
    /\ RemoveFlip(tr)
    /\ IF targetWord = Undefined
       THEN /\ listeners' = listeners \ {l}
            /\ UNCHANGED << tiles, keyClasses >>
       ELSE LET verdict == Verdict(targetWord, l.index, l.letter)
                key == CHOOSE k \in KeyOf(l.letter) : TRUE
            IN  /\ tiles' = [tiles EXCEPT ![l.tile].state = verdict]
                /\ keyClasses' =
                       [keyClasses EXCEPT ![key] = @ \cup {verdict}]
                /\ listeners' =
                       (listeners \ {l}) \cup
                           (IF l.index = 0
                            THEN {FinishListener(l)}
                            ELSE {})
    /\ UNCHANGED << interactive, timers, alerts, page, msOffset, targetWord,
                    phase >>

\* The first transitionend listener of flipTile
Reveal(l, tr) ==
    /\ RemoveFlip(tr)
    /\ IF targetWord = Undefined
       THEN \* targetWord[index] throws: the listener ends here
            /\ listeners' = listeners \ {l}
            /\ UNCHANGED << tiles, keyClasses >>
       ELSE LET verdict == Verdict(targetWord, l.index, l.letter)
                key == CHOOSE k \in KeyOf(l.letter) : TRUE
            IN  /\ tiles' = [tiles EXCEPT ![l.tile].state = verdict]
                /\ keyClasses' =
                       [keyClasses EXCEPT ![key] = @ \cup {verdict}]
                /\ listeners' =
                       (listeners \ {l}) \cup
                           (IF l.index = Len(l.array) - 1
                            THEN {FinishListener(l)}
                            ELSE {})
    /\ UNCHANGED << interactive, timers, alerts, page, msOffset, targetWord,
                    phase >>

\* The three outcomes of checkWinLose
declareWon ==
    /\ alerts' = showAlert(alerts, AlertWon, NoWord, 5000)
    /\ interactive' = stopInteraction
    /\ phase' = "won"

\* Variant: the lost branch does not call stopInteraction()
declareLostKeepsInput ==
    IF targetWord = Undefined
    THEN /\ interactive' = startInteraction
         /\ UNCHANGED << alerts, phase >>
    ELSE /\ alerts' = showAlert(alerts, AlertLost, ToUpperCase(targetWord), 0)
         /\ interactive' = startInteraction
         /\ phase' = "lost"

declareLost ==
    IF targetWord = Undefined
    THEN \* targetWord.toUpperCase() throws before the alert
         /\ interactive' = startInteraction
         /\ UNCHANGED << alerts, phase >>
    ELSE /\ alerts' = showAlert(alerts, AlertLost, ToUpperCase(targetWord), 0)
         /\ interactive' = stopInteraction
         /\ phase' = "lost"

nextRow ==
    /\ interactive' = startInteraction
    /\ phase' = "awaiting"
    /\ UNCHANGED alerts

\* Variant: the board-full test placed before the win test
checkLoseFirst(guess) ==
    IF EmptyTiles(tiles) = {} THEN declareLost
    ELSE IF guess = targetWord THEN declareWon
    ELSE nextRow

\* Variant: no board-full test
checkWinOnly(guess) ==
    IF guess = targetWord THEN declareWon ELSE nextRow

\* Variant: a win that leaves the listeners startInteraction() attached
checkWinLoseNoStop(guess) ==
    IF guess = targetWord
    THEN /\ alerts' = showAlert(alerts, AlertWon, NoWord, 5000)
         /\ interactive' = startInteraction
         /\ phase' = "won"
    ELSE IF EmptyTiles(tiles) = {} THEN declareLost
    ELSE nextRow

\* checkWinLose(guess, tiles) called right after startInteraction()
checkWinLose(guess) ==
    IF guess = targetWord THEN declareWon
    ELSE IF EmptyTiles(tiles) = {} THEN declareLost
    ELSE nextRow

\* Variant: the second listener is not registered with { once: true }
FinishNotOnce(l, tr) ==
    /\ transitions' = transitions \ {tr}
    /\ listeners' = listeners
    /\ checkWinLose(l.guess)
    /\ UNCHANGED << tiles, flipClass, keyClasses, timers, page, msOffset,
                    targetWord >>

\* The second transitionend listener of the last tile
Finish(l, tr) ==
    /\ transitions' = transitions \ {tr}
    /\ listeners' = listeners \ {l}
    /\ checkWinLose(l.guess)
    /\ UNCHANGED << tiles, flipClass, keyClasses, timers, page, msOffset,
                    targetWord >>

\* A transition of a tile ends: transitionend is dispatched to the
\* listeners registered on the tile at that moment.
TransitionEnd(tr) ==
    /\ tr \in transitions
    /\ tr.remaining = 0
    /\ LET ls == {l \in listeners : l.tile = tr.tile}
       IN  IF \E l \in ls : l.kind = "reveal"
           THEN Reveal(CHOOSE l \in ls : l.kind = "reveal", tr)
           ELSE IF ls # {}
           THEN Finish(CHOOSE l \in ls : TRUE, tr)
           ELSE /\ transitions' = transitions \ {tr}
                /\ UNCHANGED << tiles, flipClass, keyClasses, interactive,
                                timers, listeners, alerts, page, msOffset,
                                targetWord, phase >>

\* Time passes until the next timer or transition is due
Tick ==
    LET pending == timers \cup transitions
        d == Min({p.remaining : p \in pending})
    IN  /\ pending # {}
        /\ \A p \in pending : p.remaining > 0
        /\ timers' = {[p EXCEPT !.remaining = @ - d] : p \in timers}
        /\ transitions' = {[p EXCEPT !.remaining = @ - d] : p \in transitions}
        /\ UNCHANGED << tiles, flipClass, keyClasses, interactive, listeners,
                        alerts, page, msOffset, targetWord, phase >>

\* The timer of showAlert fires: alert.classList.add("hide")
AlertTimeout(k) ==
    /\ k \in 1 .. Len(alerts)
    /\ alerts[k].duration # 0
    /\ ~alerts[k].hide
    /\ alerts' = [alerts EXCEPT ![k].hide = TRUE]
    /\ UNCHANGED << tiles, flipClass, keyClasses, interactive, timers,
                    listeners, transitions, page, msOffset, targetWord, phase >>

\* The hide transition of an alert ends: alert.remove()
AlertTransitionEnd(k) ==
    /\ k \in 1 .. Len(alerts)
    /\ alerts[k].hide
    /\ alerts' = [j \in 1 .. (Len(alerts) - 1) |->
                     IF j < k THEN alerts[j] ELSE alerts[j + 1]]
    /\ UNCHANGED << tiles, flipClass, keyClasses, interactive, timers,
                    listeners, transitions, page, msOffset, targetWord, phase >>

Next ==
    \/ \E target \in ClickTargets : Click(target)
    \/ \E key \in EventKeys : KeyDown(key)
    \/ \E tm \in timers : TimerFires(tm)
    \/ \E tr \in transitions : TransitionEnd(tr)
    \/ Tick
    \/ \E k \in 1 .. (MaxAlerts + 2) : AlertTimeout(k)
    \/ \E k \in 1 .. (MaxAlerts + 2) : AlertTransitionEnd(k)

Spec == Init /\ [][Next]_vars

\* The program with its environment doing its part: time passes, every
\* timer that is due fires, and every transition that has ended delivers
\* its transitionend.
SpecFair ==
    /\ Init
    /\ [][Next]_vars
    /\ WF_vars(Tick)
    /\ WF_vars(\E tm \in timers : TimerFires(tm))
    /\ WF_vars(\E tr \in transitions : TransitionEnd(tr))

\* Pages the script can be loaded on: the complete one, one for each
\* missing collaborator, and one whose keyboard has no button for "c"
Pages ==
    { CompletePage,
      [CompletePage EXCEPT !.guessGrid = FALSE],
      [CompletePage EXCEPT !.alertContainer = FALSE],
      [CompletePage EXCEPT !.keyboard = FALSE, !.keys = {}],
      [CompletePage EXCEPT !.keys = DataKeys \ {"C"}] }

InitConfig == \E pg \in Pages : Loaded(pg)

\* The program on any of these pages
SpecConfig == InitConfig /\ [][Next]_vars

TypeOK ==
    /\ tiles \in [Tiles -> [letter : {LowerAlphabet[i] : i \in 1 .. Len(LowerAlphabet)}
                                         \cup {Absent},
                            state : Verdicts \cup {"active", Absent}]]
    /\ flipClass \subseteq Tiles
    /\ keyClasses \in [DataKeys -> SUBSET Verdicts]
    /\ interactive \in BOOLEAN
    /\ \A tm \in timers : tm.tile \in Tiles /\ tm.remaining >= 0
    /\ \A tr \in transitions : tr.tile \in Tiles /\ tr.remaining >= 0
    /\ \A l \in listeners : l.tile \in Tiles /\ l.kind \in {"reveal", "finish"}
    /\ phase \in {"awaiting", "revealing", "won", "lost"}
    /\ page.keys \subseteq DataKeys

-----------------------------------------------------------------------------
(* One reveal, for any guess and target of a larger word list: the state   *)
(* submitGuess leaves behind for a first-row guess, then the timers and    *)
(* completion signals of flipTile.                                         *)

Crane == <<"c", "r", "a", "n", "e">>
Crate == <<"c", "r", "a", "t", "e">>
Abcde == <<"a", "b", "c", "d", "e">>
Eabcd == <<"e", "a", "b", "c", "d">>

ScoreTargets == {Crane, Abcde, <<"a", "b", "b", "c", "a">>}

ScoreGuesses == {Crate, Eabcd, Crane, <<"b", "a", "c", "c", "a">>,
                 <<"t", "r", "e", "n", "d">>}

FirstRow == [i \in 1 .. WORD_LENGTH |-> i - 1]

InitScore ==
    \E guess \in ScoreGuesses, target \in ScoreTargets :
        /\ tiles = [t \in Tiles |->
                       IF t < WORD_LENGTH
                       THEN [letter |-> guess[t + 1], state |-> "active"]
                       ELSE [letter |-> Absent, state |-> Absent]]
        /\ page = CompletePage
        /\ flipClass = {}
        /\ keyClasses = [k \in DataKeys |-> {}]
        /\ interactive = stopInteraction
        /\ timers = {FlipTimer(FirstRow[i + 1], i) : i \in Flipped(guess)}
        /\ listeners =
               {RevealListener(FirstRow[i + 1], i, FirstRow, guess) :
                   i \in Flipped(guess)}
        /\ transitions = {}
        /\ alerts = <<>>
        /\ msOffset = 0
        /\ targetWord = target
        /\ phase = "revealing"

NextScore ==
    \/ \E tm \in timers : TimerFires(tm)
    \/ \E tr \in transitions : TransitionEnd(tr)
    \/ Tick
    \/ \E k \in 1 .. (MaxAlerts + 2) : AlertTimeout(k)
    \/ \E k \in 1 .. (MaxAlerts + 2) : AlertTransitionEnd(k)

SpecScore == InitScore /\ [][NextScore]_vars

-----------------------------------------------------------------------------
(* Vocabulary of the properties *)

Rows == 0 .. (NumRows - 1)

RowTiles(r) == {t \in Tiles : t \div WORD_LENGTH = r}

RowWord(r) == [i \in 1 .. WORD_LENGTH |-> tiles[r * WORD_LENGTH + i - 1].letter]

RowStates(r) == [i \in 1 .. WORD_LENGTH |-> tiles[r * WORD_LENGTH + i - 1].state]

\* The last row holding a letter: the submitted row while a reveal runs
LastRow ==
    LET used == {r \in Rows : \E t \in RowTiles(r) : tiles[t].letter # Absent}
    IN  IF used = {} THEN 0 ELSE CHOOSE r \in used : \A q \in used : q <= r

InputEvent ==
    \/ \E target \in ClickTargets : Click(target)
    \/ \E key \in EventKeys : KeyDown(key)

AlertEvent ==
    \/ \E k \in 1 .. (MaxAlerts + 2) : AlertTimeout(k)
    \/ \E k \in 1 .. (MaxAlerts + 2) : AlertTransitionEnd(k)

SubmitEvent ==
    \/ KeyDown("Enter")
    \/ Click([kind |-> "enter", key |-> ""])

LetterEvent ==
    \/ \E key \in Letters : KeyDown(key)
    \/ \E key \in ClickKeys : Click([kind |-> "key", key |-> key])

\* Everything but the alert container
BoardUnchanged ==
    UNCHANGED << tiles, flipClass, keyClasses, interactive, timers, listeners,
                 transitions, page, msOffset, targetWord, phase >>

Signalled(message) ==
    alerts' = << [msg |-> message, word |-> NoWord, duration |-> 1000,
                  hide |-> FALSE] >> \o alerts

ActiveWord ==
    [i \in 1 .. Len(getActiveTiles) |-> tiles[getActiveTiles[i]].letter]

-----------------------------------------------------------------------------
\* C1: while a reveal is running (from the stopInteraction() of an accepted
\* guess until the last tile's completion handler), no click or keydown can
\* change a tile, the game state or the attachment of the listeners; a step
\* that changes the board or the game state in that interval is a flip
\* timer or a transitionend of a tile, never an input or an alert event.
C1_InputInertDuringReveal ==
    [][ phase = "revealing" =>
            /\ (InputEvent \/ AlertEvent) =>
                   UNCHANGED << tiles, phase, interactive, flipClass, timers,
                                listeners, transitions, keyClasses >>
            /\ (tiles' # tiles \/ phase' # phase) =>
                   \E tr \in transitions : TransitionEnd(tr) ]_vars

\* A reveal in progress with the listeners detached: some tile of the row
\* already carries its verdict, another is still active.
C1_Witness ==
    /\ phase = "revealing"
    /\ ~interactive
    /\ \E t, u \in RowTiles(LastRow) :
           tiles[t].state \in Verdicts /\ tiles[u].state = "active"

\* The scorer of the specification, position i counted from 1
SpecVerdict(guess, target, i) ==
    IF guess[i] = target[i] THEN "correct"
    ELSE IF \E j \in 1 .. WORD_LENGTH : target[j] = guess[i]
    THEN "wrong-location"
    ELSE "wrong"

\* C2: every verdict on the board is the one the per-position rule gives for
\* the row's letters and the target word (correct on a position match, else
\* wrong-location if the target contains the letter, else wrong); target
\* crane / guess crate ends as correct, correct, correct, wrong, correct and
\* target abcde / guess eabcd ends as wrong-location everywhere.
C2_VerdictRule ==
    /\ \A t \in Tiles :
           tiles[t].state \in Verdicts =>
               tiles[t].state =
                   SpecVerdict(RowWord(t \div WORD_LENGTH), targetWord,
                               (t % WORD_LENGTH) + 1)
    /\ (targetWord = Crane /\ RowWord(0) = Crate /\ phase # "revealing") =>
           RowStates(0) =
               <<"correct", "correct", "correct", "wrong", "correct">>
    /\ (targetWord = Abcde /\ RowWord(0) = Eabcd /\ phase # "revealing") =>
           RowStates(0) =
               <<"wrong-location", "wrong-location", "wrong-location",
                 "wrong-location", "wrong-location">>

\* The reveal of crate against crane has completed.
C2_Witness ==
    /\ targetWord = Crane
    /\ RowWord(0) = Crate
    /\ phase = "awaiting"
    /\ tiles[3].state = "wrong"

\* C3: when the reveal of a row whose letters equal the target word
\* completes, the game state becomes won and all five tiles of the row are
\* correct, on every row, the last one included.
C3_WonOnMatch ==
    [][ ( /\ phase = "revealing"
          /\ phase' # "revealing"
          /\ RowWord(LastRow) = targetWord )
        => ( /\ phase' = "won"
             /\ \A t \in RowTiles(LastRow) : tiles'[t].state = "correct" ) ]_vars

\* Won with the target word in the last row of the board.
C3_Witness ==
    /\ phase = "won"
    /\ RowWord(NumRows - 1) = targetWord
    /\ \A t \in RowTiles(NumRows - 1) : tiles[t].state = "correct"

\* The alert container shows the lose message with the target word
LostAlertShown ==
    \E k \in 1 .. Len(alerts) :
        /\ alerts[k].msg = AlertLost
        /\ alerts[k].duration = 0
        /\ Len(alerts[k].word) = Len(targetWord)
        /\ \A j \in 1 .. Len(targetWord) :
               ToLowerCase(alerts[k].word[j]) = targetWord[j]

\* C4: when the reveal of the last row completes and its letters are not the
\* target word, the game state becomes lost, no empty tile remains and the
\* lose message shows the target word; whenever the state is lost, no empty
\* tile remains and that message is shown.
C4_LostWhenExhausted ==
    [][ /\ ( /\ phase = "revealing"
             /\ phase' # "revealing"
             /\ LastRow = NumRows - 1
             /\ RowWord(LastRow) # targetWord )
           => ( /\ phase' = "lost"
                /\ EmptyTiles(tiles') = {}
                /\ LostAlertShown' )
        /\ phase' = "lost" => (EmptyTiles(tiles') = {} /\ LostAlertShown') ]_vars

\* Lost: every row committed, none of them the target word.
C4_Witness ==
    /\ phase = "lost"
    /\ \A r \in Rows : RowWord(r) # targetWord
    /\ \A t \in Tiles : tiles[t].state \in Verdicts
    /\ LostAlertShown

\* C5: once the game state is won or lost it stays so, the listeners stay
\* detached, and no step changes a tile.
C5_Terminal ==
    [][ /\ phase \in {"won", "lost"} => (phase' = phase /\ tiles' = tiles)
        /\ phase' \in {"won", "lost"} => ~interactive' ]_vars

\* Won, and the win alert has since been dismissed.
C5_Witness ==
    /\ phase = "won"
    /\ alerts = <<>>
    /\ ~interactive

\* C6: a submit handled with fewer than WORD_LENGTH active tiles (none
\* included) prepends "Not enough letters!" and changes nothing else: the
\* listeners stay attached, no timer or listener is registered, no tile and
\* no game state changes.
C6_IncompleteGuess ==
    [][ (interactive /\ Len(getActiveTiles) < WORD_LENGTH /\ SubmitEvent)
        => (Signalled(AlertIncomplete) /\ BoardUnchanged) ]_vars

\* Enter on the empty board has been answered with "Not enough letters!".
C6_Witness ==
    /\ interactive
    /\ \A t \in Tiles : tiles[t].letter = Absent
    /\ Len(alerts) > 0
    /\ alerts[1].msg = AlertIncomplete

\* C7: a submit handled with WORD_LENGTH active tiles whose letters are not
\* a dictionary word prepends "Not in word list!" and changes nothing else:
\* the row stays active, the listeners attached, no reveal starts.
C7_UnknownWord ==
    [][ ( /\ interactive
          /\ Len(getActiveTiles) = WORD_LENGTH
          /\ ActiveWord \notin Dictionary
          /\ SubmitEvent )
        => (Signalled(AlertUnknown) /\ BoardUnchanged) ]_vars

\* A full row that is no dictionary word has been answered with
\* "Not in word list!" and is still active.
C7_Witness ==
    /\ interactive
    /\ Len(getActiveTiles) = WORD_LENGTH
    /\ ActiveWord \notin Dictionary
    /\ Len(alerts) > 0
    /\ alerts[1].msg = AlertUnknown

Committed(r) == \A t \in RowTiles(r) : tiles[t].state \in Verdicts

EmptyRow(r) == \A t \in RowTiles(r) : tiles[t] = [letter |-> Absent, state |-> Absent]

\* Row r is v tiles with a verdict, then a active tiles, then empty tiles
RowShape(r, v, a) ==
    \A t \in RowTiles(r) :
        LET i == t % WORD_LENGTH
        IN  IF i < v THEN tiles[t].state \in Verdicts /\ tiles[t].letter # Absent
            ELSE IF i < v + a
            THEN tiles[t].state = "active" /\ tiles[t].letter # Absent
            ELSE tiles[t] = [letter |-> Absent, state |-> Absent]

\* C8 as stated: there is a row whose active tiles run from its first tile,
\* followed by empty tiles only; the rows before it are committed and the
\* rows after it are empty.
C8_Original ==
    \E r \in Rows :
        /\ \A q \in Rows : q < r => Committed(q)
        /\ \A q \in Rows : q > r => EmptyRow(q)
        /\ \E a \in 0 .. WORD_LENGTH : RowShape(r, 0, a)

\* C8, amended: there is a row such that the rows before it are committed,
\* the rows after it are empty, and the row itself is a run of tiles with a
\* verdict, then a run of active tiles, then empty tiles.  While the
\* listeners are attached the row has no verdict yet (the active tiles run
\* from its first tile); during a reveal the row is full (the active tiles
\* follow the tiles already revealed); once won or lost no tile is active.
C8_RowDiscipline ==
    \E r \in Rows :
        /\ \A q \in Rows : q < r => Committed(q)
        /\ \A q \in Rows : q > r => EmptyRow(q)
        /\ \E v, a \in 0 .. WORD_LENGTH :
               /\ v + a <= WORD_LENGTH
               /\ RowShape(r, v, a)
               /\ interactive => v = 0
               /\ phase = "revealing" => v + a = WORD_LENGTH
               /\ phase \in {"won", "lost"} => a = 0

\* The second row is being revealed: its first tile has a verdict, its last
\* is still active, the first row is committed.
C8_Witness ==
    /\ NumRows > 1
    /\ phase = "revealing"
    /\ Committed(0)
    /\ tiles[WORD_LENGTH].state \in Verdicts
    /\ tiles[2 * WORD_LENGTH - 1].state = "active"

\* C9: a tile that carries a verdict keeps its letter and its verdict in
\* every step.
C9_VerdictsImmutable ==
    [][ \A t \in Tiles : tiles[t].state \in Verdicts => tiles'[t] = tiles[t] ]_vars

\* The first row is committed and the player is editing the second.
C9_Witness ==
    /\ NumRows > 1
    /\ interactive
    /\ Committed(0)
    /\ tiles[WORD_LENGTH].state = "active"
    /\ tiles[WORD_LENGTH + 1].state = Absent

\* C10: with WORD_LENGTH active tiles, a letter key (keydown or click)
\* changes nothing at all.
C10_Saturation ==
    [][ (interactive /\ Len(getActiveTiles) >= WORD_LENGTH /\ LetterEvent)
        => UNCHANGED vars ]_vars

\* A full active first row with the next row still empty.
C10_Witness ==
    /\ NumRows > 1
    /\ interactive
    /\ Len(getActiveTiles) = WORD_LENGTH
    /\ EmptyRow(1)

\* The letter keys of this model, as keydown keys and as data-key values
LetterKeys == Letters \cup ClickKeys

\* C11 as stated: wherever input is enabled, a letter key followed by a
\* delete leaves every tile's letter and state as they were.
C11_Original ==
    interactive =>
        \A key \in LetterKeys : deleteKeyGrid(pressKeyGrid(tiles, key)) = tiles

\* C11, amended: wherever input is enabled and fewer than WORD_LENGTH tiles
\* are active, a letter key fills a tile and a delete after it leaves every
\* tile's letter and state as they were.
C11_RoundTrip ==
    (interactive /\ Len(getActiveTiles) < WORD_LENGTH) =>
        \A key \in LetterKeys :
            /\ pressKeyGrid(tiles, key) # tiles
            /\ deleteKeyGrid(pressKeyGrid(tiles, key)) = tiles

\* Input is enabled on a second row that holds some letters but is not full.
C11_Witness ==
    /\ NumRows > 1
    /\ interactive
    /\ Committed(0)
    /\ Len(getActiveTiles) > 0
    /\ Len(getActiveTiles) < WORD_LENGTH

-----------------------------------------------------------------------------
\* A persistent "Something went wrong!" alert is in the alert container
ErrorShown ==
    \E k \in 1 .. Len(alerts) :
        alerts[k].msg = AlertError /\ alerts[k].duration = 0

\* C12: when the day offset is outside the target-word list, the persistent
\* error alert is shown, input is suspended, and no tile was filled and no
\* reveal was started against the missing target word.
C12_FatalOutOfRange ==
    targetWord = Undefined =>
        /\ ErrorShown
        /\ ~interactive
        /\ \A t \in Tiles : tiles[t].letter = Absent
        /\ phase = "awaiting"

-----------------------------------------------------------------------------
\* A collaborator is missing from the page
CollaboratorMissing ==
    ~(page.guessGrid /\ page.alertContainer /\ page.keyboard)

\* A reveal was started on a row holding a letter that has no key button
KeyMissing ==
    /\ phase = "revealing"
    /\ \E t \in RowTiles(LastRow) :
           tiles[t].letter # Absent /\ KeyOf(tiles[t].letter) = {}

\* C13: with a collaborator missing at startup, or a submitted row holding
\* a letter without a key button, the persistent error alert is shown and
\* input is suspended.
C13_FatalConfiguration ==
    (CollaboratorMissing \/ KeyMissing) => (ErrorShown /\ ~interactive)

-----------------------------------------------------------------------------
\* new Date(2023, 0, 1) is midnight of 1 January in local time: where
\* daylight saving applies, the local clock at load is ahead of the epoch's
\* clock by nothing or by one hour.
DstShifts == {0, 1000 * 60 * 60}

\* The local calendar day, counted from 1 January 2023, of a load that is
\* ms after the epoch with the local clock shifted by shift
CalendarDay(ms, shift) == (ms + shift) \div MsPerDay

\* C14: the target word is the word at the floor of the days elapsed since
\* the epoch, it never changes during the session, and any load within the
\* same calendar day selects the same word.
C14_SameDaySameWord ==
    /\ targetWord = ResolveTargetWord(msOffset)
    /\ \A shift \in DstShifts : \A ms \in MsOffsets :
           CalendarDay(ms, shift) = CalendarDay(msOffset, shift)
               => ResolveTargetWord(ms) = targetWord

-----------------------------------------------------------------------------
\* C15: whenever a step turns input on again after a reveal, every tile of
\* the submitted row carries a verdict, none of them is active, and no flip
\* timer, listener or transition of the reveal is still outstanding.
C15_RevealedBeforeInput ==
    [][ (~interactive /\ interactive')
        => /\ Committed(LastRow)'
           /\ getActiveTiles' = <<>>
           /\ timers' = {} /\ listeners' = {} /\ transitions' = {} ]_vars

\* Input is on again after the reveal of the first row: the row is
\* committed and the next one is still empty.
C15_Witness ==
    /\ NumRows > 1
    /\ interactive
    /\ phase = "awaiting"
    /\ Committed(0)
    /\ EmptyRow(1)
    /\ flipClass = {}

-----------------------------------------------------------------------------
\* The listeners that call checkWinLose when their tile's transition ends
FinishListeners == {l \in listeners : l.kind = "finish"}

\* A step in which checkWinLose decides: the reveal ends as won, lost or
\* next row
Decided == phase = "revealing" /\ phase' # "revealing"

-----------------------------------------------------------------------------
\* The tiles a step gives a verdict to
NewVerdicts ==
    {t \in Tiles : tiles[t].state \notin Verdicts /\ tiles'[t].state \in Verdicts}

\* C17: a step gives a verdict to at most one tile, and only to the
\* leftmost tile of the revealing row that has none yet: every tile to its
\* left already carries a verdict and every tile to its right is still
\* active.
C17_LeftToRight ==
    [][ /\ Cardinality(NewVerdicts) <= 1
        /\ \A t \in NewVerdicts : \A u \in RowTiles(t \div WORD_LENGTH) :
               /\ u < t => tiles[u].state \in Verdicts
               /\ u > t => tiles'[u].state = "active" ]_vars

\* Mid-reveal of the second row: its first two tiles carry verdicts, the
\* other three are still active.
C17_Witness ==
    /\ NumRows > 1
    /\ phase = "revealing"
    /\ Committed(0)
    /\ \A t \in RowTiles(1) :
           IF t % WORD_LENGTH < 2
           THEN tiles[t].state \in Verdicts
           ELSE tiles[t].state = "active"

-----------------------------------------------------------------------------
\* C18: a reveal that has begun leads to a state outside the revealing
\* phase in which every tile of the submitted row carries a verdict.
C18_RevealCompletes ==
    (phase = "revealing") ~> (phase # "revealing" /\ Committed(LastRow))

-----------------------------------------------------------------------------
\* How many times a word contains a letter
Occurrences(word, letter) ==
    Cardinality({j \in 1 .. Len(word) : word[j] = letter})

\* The positions i of the first row whose letter is also at another
\* position of the row while the target word contains it exactly once
RepeatedOnce ==
    {i \in 1 .. WORD_LENGTH :
        /\ RowWord(0)[i] # Absent
        /\ \E j \in 1 .. WORD_LENGTH : j # i /\ RowWord(0)[j] = RowWord(0)[i]
        /\ Occurrences(targetWord, RowWord(0)[i]) = 1}

\* C19 as stated: every occurrence of a letter that the guess holds twice
\* and the target once is given wrong-location.
C19_Original ==
    \A i \in RepeatedOnce :
        RowStates(0)[i] \in Verdicts => RowStates(0)[i] = "wrong-location"

\* C19, amended: an occurrence of a letter that the guess holds twice and
\* the target once is given correct if it stands at the target's position
\* of that letter and wrong-location otherwise, never wrong; when neither
\* occurrence stands at that position both are given wrong-location.
C19_NoDowngrade ==
    \A i \in RepeatedOnce :
        RowStates(0)[i] \in Verdicts =>
            RowStates(0)[i] = IF targetWord[i] = RowWord(0)[i]
                              THEN "correct"
                              ELSE "wrong-location"

\* The reveal of bacca is complete: against crane both a's and both c's
\* are wrong-location, against abcde the c in third place is correct and
\* the c after it wrong-location.
C19_Witness ==
    /\ RowWord(0) = <<"b", "a", "c", "c", "a">>
    /\ Committed(0)
    /\ \/ /\ targetWord = Crane
          /\ RepeatedOnce = {2, 3, 4, 5}
          /\ \A i \in RepeatedOnce : RowStates(0)[i] = "wrong-location"
       \/ /\ targetWord = Abcde
          /\ RowStates(0)[3] = "correct"
          /\ RowStates(0)[4] = "wrong-location"

-----------------------------------------------------------------------------
\* C20: wherever input is enabled and fewer than WORD_LENGTH tiles are
\* active, the board has an empty tile: the condition under which pressKey
\* calls errorResponse() holds in no reachable state.
C20_EmptyTileAvailable ==
    (interactive /\ Len(getActiveTiles) < WORD_LENGTH) => EmptyTiles(tiles) # {}

\* Input is enabled on the last row with one empty tile left on the board.
C20_Witness ==
    /\ interactive
    /\ \A r \in Rows : r < NumRows - 1 => Committed(r)
    /\ Len(getActiveTiles) = WORD_LENGTH - 1
    /\ Cardinality(EmptyTiles(tiles)) = 1

=============================================================================
